---------------------------- MODULE Spec2Model ----------------------------
(***************************************************************************)
(* CSR construction of src/src/graph.rs: CSR::from (degrees, prefix_sum,   *)
(* lock-free parallel placement, offset repair, sort_targets) and the      *)
(* DirectedCSRGraph / UndirectedCSRGraph types built on it.                *)
(*                                                                         *)
(* Rust slices are 0-based, TLA+ sequences 1-based: cell i of a Rust       *)
(* vector v is v[i + 1] here (operator At).                                *)
(***************************************************************************)
EXTENDS Integers, Sequences, FiniteSets, Bags, TLC

\* Bounds of the model.
MaxNodes == 3
MaxEdges == 3
MaxWorkers == 2
MaxViews == 2
MaxMicros == 2

Nodes == 0 .. (MaxNodes - 1)

Direction == {"Outgoing", "Incoming", "Undirected"}

Null == [null |-> TRUE]

VARIABLES
    edge_list,   \* the EdgeList: a sequence of <<s, t>>
    caller,      \* which conversion runs: "CSR", "Directed", "Undirected"
    workers,     \* threads of the rayon pool
    node_count,  \* CSR::from's node_count argument
    direction,   \* CSR::from's direction argument
    pc,          \* position in CSR::from, or "done" / "panic"
    degrees,     \* local of CSR::from
    offsets,     \* local of CSR::from (plain or atomic cells)
    targets,     \* local of CSR::from (plain or atomic cells)
    task,        \* per edge: atomic steps its closure has performed
    slot,        \* per edge: the index its fetch_add returned, until stored
    claimed,     \* history: per index, how often fetch_add has returned it
    writes,      \* history: number of stores per cell of targets
    out_edges,   \* DirectedCSRGraph.out_edges (Null until built)
    in_edges,    \* DirectedCSRGraph.in_edges
    edges,       \* UndirectedCSRGraph.edges, or the CSR of a bare CSR::from
    graph,       \* the finished graph's node_count / edge_count fields
    g,           \* Ungraph.g: the arrays of the graph behind the Arc
    views,       \* the neighbor views alive, each a clone of the Arc
    load_micros, \* Ungraph.load_micros
    returned     \* what the last call on the Ungraph returned

\* The state of a build.
cvars == <<edge_list, caller, workers, node_count, direction, pc, degrees,
           offsets, targets, task, slot, claimed, writes, out_edges,
           in_edges, edges, graph>>

\* The state of an Ungraph.
uvars == <<g, views, load_micros, returned>>

vars == <<cvars, uvars>>

----------------------------------------------------------------------------
\* Helpers for 0-based vectors.

At(v, i) == v[i + 1]

Set(v, i, x) == [v EXCEPT ![i + 1] = x]

Zeros(n) == [i \in 1 .. n |-> 0]

Max(a, b) == IF a >= b THEN a ELSE b

----------------------------------------------------------------------------
\* The edge source (crate::input), after its contract: the maximum node id
\* seen, and the per-node degree under a direction.

RECURSIVE max_node_id(_)
max_node_id(el) ==
    IF el = <<>> THEN 0
    ELSE Max(Max(Head(el)[1], Head(el)[2]), max_node_id(Tail(el)))

\* Number of endpoints node n anchors under direction d.
degree_of(el, n, d) ==
    LET src == Cardinality({e \in 1 .. Len(el) : el[e][1] = n})
        dst == Cardinality({e \in 1 .. Len(el) : el[e][2] = n})
    IN  CASE d = "Outgoing" -> src
          [] d = "Incoming" -> dst
          [] d = "Undirected" -> src + dst

edge_list_degrees(el, nc, d) == [i \in 1 .. nc |-> degree_of(el, i - 1, d)]

----------------------------------------------------------------------------
\* prefix_sum: sums[i] = total before degree i; sums[len] = total.

\* The loop with its two statements swapped: total += degree; sums[i] = total.
RECURSIVE prefix_sum_swapped_loop(_, _, _, _)
prefix_sum_swapped_loop(degs, i, total, sums) ==
    IF i = Len(degs) THEN Set(sums, Len(degs), total)
    ELSE prefix_sum_swapped_loop(degs, i + 1, total + At(degs, i),
                                 Set(sums, i, total + At(degs, i)))

prefix_sum_swapped(degs) ==
    prefix_sum_swapped_loop(degs, 0, 0, Zeros(Len(degs) + 1))

RECURSIVE prefix_sum_loop(_, _, _, _)
prefix_sum_loop(degs, i, total, sums) ==
    IF i = Len(degs) THEN Set(sums, Len(degs), total)
    ELSE prefix_sum_loop(degs, i + 1, total + At(degs, i), Set(sums, i, total))

prefix_sum(degs) == prefix_sum_loop(degs, 0, 0, Zeros(Len(degs) + 1))

----------------------------------------------------------------------------
\* Placement: the closure run for one edge <<s, t>>.

\* The Undirected arm with its second line a copy of the first, the cursor
\* changed and the stored value not.
placements_copied_line(d, s, t) ==
    CASE d = "Outgoing" -> << <<s, t>> >>
      [] d = "Incoming" -> << <<t, s>> >>
      [] d = "Undirected" -> << <<s, t>>, <<t, t>> >>

\* The Undirected arm placing a self-loop once, as if s = t were one endpoint.
placements_loop_once(d, s, t) ==
    CASE d = "Outgoing" -> << <<s, t>> >>
      [] d = "Incoming" -> << <<t, s>> >>
      [] d = "Undirected" ->
             IF s = t THEN << <<s, t>> >> ELSE << <<s, t>>, <<t, s>> >>

\* The stored ids taken as 1-based.
placements_one_based(d, s, t) ==
    CASE d = "Outgoing" -> << <<s, t + 1>> >>
      [] d = "Incoming" -> << <<t, s + 1>> >>
      [] d = "Undirected" -> << <<s, t + 1>>, <<t, s + 1>> >>

\* The <<cursor node, stored value>> pairs of the closure, in program order.
placements(d, s, t) ==
    CASE d = "Outgoing" -> << <<s, t>> >>
      [] d = "Incoming" -> << <<t, s>> >>
      [] d = "Undirected" -> << <<s, t>>, <<t, s>> >>


\* Atomic steps of the closure of edge e: a fetch_add and a store per placement.
Steps(e) == 2 * Len(placements(direction, edge_list[e][1], edge_list[e][2]))

\* Closures a worker has started and not finished.
InFlight == {e \in DOMAIN task : task[e] > 0 /\ task[e] < Steps(e)}

\* The placement the closure of edge e is at.
Placement(e) ==
    placements(direction, edge_list[e][1], edge_list[e][2])[(task[e] \div 2) + 1]

\* for_each returning without joining its closures.
AllPlaced_no_join == TRUE

\* for_each has run every closure to its end.
AllPlaced == \A e \in DOMAIN task : task[e] = Steps(e)

\* A load followed by a store instead of one atomic step: the increment is
\* lost when another closure is between its own load and store.
fetch_add_torn(cells, n) ==
    IF InFlight # {} THEN cells ELSE Set(cells, n, At(cells, n) + 1)

\* AtomicUsize::fetch_add(1): the cells after the increment.
fetch_add(cells, n) == Set(cells, n, At(cells, n) + 1)

----------------------------------------------------------------------------
\* Offset repair: offsets.pop(); offsets.insert(0, 0).

\* The repair left out: the cursors as placement left them.
repair_left_out(offs) == offs

\* The insert without the pop.
repair_no_pop(offs) == <<0>> \o offs

repair(offs) == <<0>> \o SubSeq(offs, 1, Len(offs) - 1)

----------------------------------------------------------------------------
\* sort_targets.

\* The place of s[i] in ascending order (equal values in any fixed order).
Rank(s, i) ==
    Cardinality({j \in 1 .. Len(s) : s[j] < s[i] \/ (s[j] = s[i] /\ j < i)}) + 1

\* slice::sort_unstable: every element moved to its place in ascending order.
sort_unstable(s) ==
    [k \in 1 .. Len(s) |-> s[CHOOSE i \in 1 .. Len(s) : Rank(s, i) = k]]

\* The slice &offsets[1..node_count] the loop runs over.
chunk_offsets(offs) == SubSeq(offs, 2, Len(offs) - 1)

\* The range check one off: an empty range refused too.
slice_panics_on_empty(offs) == 1 >= Len(offs) - 1

\* &offsets[1..node_count] panics when the range starts after its end.
slice_panics(offs) == 1 > Len(offs) - 1

\* The loop: split_at_mut(offset - prev_offset), push the list, keep the rest.
RECURSIVE split_loop(_, _, _, _)
split_loop(slice, tail, prev_offset, chunks) ==
    IF slice = <<>> THEN [target_chunks |-> chunks, tail |-> tail]
    ELSE LET mid == Head(slice) - prev_offset
         IN  split_loop(Tail(slice), SubSeq(tail, mid + 1, Len(tail)),
                        Head(slice), Append(chunks, SubSeq(tail, 1, mid)))

target_chunks(offs, tgts) ==
    split_loop(chunk_offsets(offs), tgts, At(offs, 0), <<>>)

RECURSIVE Concat(_)
Concat(ss) == IF ss = <<>> THEN <<>> ELSE Head(ss) \o Concat(Tail(ss))

\* targets after sort_targets: every pushed chunk sorted, the rest as it was.
sort_targets(offs, tgts) ==
    LET split == target_chunks(offs, tgts)
        sorted == [k \in 1 .. Len(split.target_chunks) |->
                       sort_unstable(split.target_chunks[k])]
    IN  Concat(sorted) \o split.tail

----------------------------------------------------------------------------
\* CSR and the graph types.

CSR(offs, tgts) == [offsets |-> offs, targets |-> tgts]

CSR_node_count(csr) == Len(csr.offsets) - 1

CSR_edge_count(csr) == Len(csr.targets)

CSR_degree(csr, node) == At(csr.offsets, node + 1) - At(csr.offsets, node)

CSR_neighbors(csr, node) ==
    SubSeq(csr.targets, At(csr.offsets, node) + 1, At(csr.offsets, node + 1))

\* edge_count read from the wrong accessor.
DirectedCSRGraph_new_mixed_up(oe, ie) ==
    [node_count |-> CSR_node_count(oe), edge_count |-> CSR_node_count(oe)]

DirectedCSRGraph_new(oe, ie) ==
    [node_count |-> CSR_node_count(oe), edge_count |-> CSR_edge_count(oe)]

\* edge_count taken as the physical length of targets.
UndirectedCSRGraph_new_unhalved(e) ==
    [node_count |-> CSR_node_count(e), edge_count |-> CSR_edge_count(e)]

UndirectedCSRGraph_new(e) ==
    [node_count |-> CSR_node_count(e), edge_count |-> CSR_edge_count(e) \div 2]

out_degree(node) == CSR_degree(out_edges, node)

out_neighbors(node) == CSR_neighbors(out_edges, node)

in_degree(node) == CSR_degree(in_edges, node)

in_neighbors(node) == CSR_neighbors(in_edges, node)

degree(node) == CSR_degree(edges, node)

neighbors(node) == CSR_neighbors(edges, node)

----------------------------------------------------------------------------
\* Inputs.

RECURSIVE SeqsUpTo(_, _)
SeqsUpTo(S, n) ==
    IF n = 0 THEN {<<>>}
    ELSE LET shorter == SeqsUpTo(S, n - 1)
         IN  shorter \cup {Append(s, x) : s \in {q \in shorter : Len(q) = n - 1}, x \in S}

EdgeLists == SeqsUpTo(Nodes \X Nodes, MaxEdges)

Valid(el, nc) == \A e \in 1 .. Len(el) : el[e][1] < nc /\ el[e][2] < nc

\* A bare CSR::from takes any node_count that covers the ids (0 for the
\* empty list included); the graph conversions compute max_node_id() + 1, and
\* are started on non-empty lists only (the maximum of no ids is not
\* specified).
Init ==
    /\ edge_list \in EdgeLists
    /\ caller \in {"CSR", "Directed", "Undirected"}
    /\ workers \in 1 .. MaxWorkers
    /\ IF caller = "CSR"
       THEN /\ node_count \in 0 .. MaxNodes
            /\ Valid(edge_list, node_count)
            /\ direction \in Direction
       ELSE /\ edge_list # <<>>
            /\ node_count = max_node_id(edge_list) + 1
            /\ direction = IF caller = "Directed" THEN "Outgoing" ELSE "Undirected"
    /\ pc = "degrees"
    /\ degrees = <<>>
    /\ offsets = <<>>
    /\ targets = <<>>
    /\ task = [e \in 1 .. Len(edge_list) |-> 0]
    /\ slot = [e \in 1 .. Len(edge_list) |-> 0]
    /\ claimed = <<>>
    /\ writes = <<>>
    /\ out_edges = Null
    /\ in_edges = Null
    /\ edges = Null
    /\ graph = Null
    /\ g = Null
    /\ views = <<>>
    /\ load_micros = 0
    /\ returned = "none"

----------------------------------------------------------------------------
\* CSR::from, one action per phase; placement one action per atomic step.

Degrees ==
    /\ pc = "degrees"
    /\ degrees' = edge_list_degrees(edge_list, node_count, direction)
    /\ pc' = "prefix_sum"
    /\ UNCHANGED uvars
    /\ UNCHANGED <<edge_list, caller, workers, node_count, direction, offsets,
                   targets, task, slot, claimed, writes, out_edges, in_edges,
                   edges, graph>>

PrefixSum ==
    /\ pc = "prefix_sum"
    /\ offsets' = prefix_sum(degrees)
    /\ pc' = "alloc"
    /\ UNCHANGED uvars
    /\ UNCHANGED <<edge_list, caller, workers, node_count, direction, degrees,
                   targets, task, slot, claimed, writes, out_edges, in_edges,
                   edges, graph>>

\* vec![0; offsets[node_count]] and the transmutes to atomic cells.
Alloc ==
    /\ pc = "alloc"
    /\ targets' = Zeros(At(offsets, node_count))
    /\ writes' = Zeros(At(offsets, node_count))
    /\ claimed' = [i \in 0 .. MaxEdges * 2 |-> 0]
    /\ task' = [e \in 1 .. Len(edge_list) |-> 0]
    /\ pc' = "place"
    /\ UNCHANGED uvars
    /\ UNCHANGED <<edge_list, caller, workers, node_count, direction, degrees,
                   offsets, slot, out_edges, in_edges, edges, graph>>

\* offsets[key].fetch_add(1, SeqCst) of the closure of edge e.
FetchAdd(e) ==
    /\ pc = "place"
    /\ task[e] < Steps(e)
    /\ task[e] % 2 = 0
    /\ task[e] = 0 => Cardinality(InFlight) < workers
    /\ LET key == Placement(e)[1]
       IN  /\ slot' = [slot EXCEPT ![e] = At(offsets, key)]
           /\ claimed' = [claimed EXCEPT ![At(offsets, key)] = @ + 1]
           /\ offsets' = fetch_add(offsets, key)
    /\ task' = [task EXCEPT ![e] = @ + 1]
    /\ UNCHANGED uvars
    /\ UNCHANGED <<edge_list, caller, workers, node_count, direction, pc,
                   degrees, targets, writes, out_edges, in_edges, edges, graph>>

\* targets[slot].store(value, SeqCst); the index is bounds-checked.
Store(e) ==
    /\ pc = "place"
    /\ task[e] % 2 = 1
    /\ LET value == Placement(e)[2]
       IN  IF slot[e] < Len(targets)
           THEN /\ targets' = Set(targets, slot[e], value)
                /\ writes' = Set(writes, slot[e], At(writes, slot[e]) + 1)
                /\ task' = [task EXCEPT ![e] = @ + 1]
                /\ slot' = [slot EXCEPT ![e] = 0]
                /\ pc' = pc
           ELSE /\ pc' = "panic"
                /\ UNCHANGED <<targets, writes, task, slot>>
    /\ UNCHANGED uvars
    /\ UNCHANGED <<edge_list, caller, workers, node_count, direction, degrees,
                   offsets, claimed, out_edges, in_edges, edges, graph>>

\* for_each has returned: every closure has finished. Then the repair.
Repair ==
    /\ pc = "place"
    /\ AllPlaced
    /\ offsets' = repair(offsets)
    /\ pc' = "sort"
    /\ UNCHANGED uvars
    /\ UNCHANGED <<edge_list, caller, workers, node_count, direction, degrees,
                   targets, task, slot, claimed, writes, out_edges, in_edges,
                   edges, graph>>

SortTargets ==
    /\ pc = "sort"
    /\ IF slice_panics(offsets)
       THEN /\ pc' = "panic"
            /\ UNCHANGED targets
       ELSE /\ targets' = sort_targets(offsets, targets)
            /\ pc' = "return"
    /\ UNCHANGED uvars
    /\ UNCHANGED <<edge_list, caller, workers, node_count, direction, degrees,
                   offsets, task, slot, claimed, writes, out_edges, in_edges,
                   edges, graph>>

\* CSR::from returns into the conversion that called it.
ReturnCSR ==
    /\ pc = "return"
    /\ caller = "CSR"
    /\ edges' = CSR(offsets, targets)
    /\ pc' = "done"
    /\ UNCHANGED uvars
    /\ UNCHANGED <<edge_list, caller, workers, node_count, direction, degrees,
                   offsets, targets, task, slot, claimed, writes, out_edges,
                   in_edges, graph>>

ReturnOut ==
    /\ pc = "return"
    /\ caller = "Directed"
    /\ direction = "Outgoing"
    /\ out_edges' = CSR(offsets, targets)
    /\ direction' = "Incoming"
    /\ pc' = "degrees"
    /\ UNCHANGED uvars
    /\ UNCHANGED <<edge_list, caller, workers, node_count, degrees, offsets,
                   targets, task, slot, claimed, writes, in_edges, edges, graph>>

ReturnIn ==
    /\ pc = "return"
    /\ caller = "Directed"
    /\ direction = "Incoming"
    /\ in_edges' = CSR(offsets, targets)
    /\ graph' = DirectedCSRGraph_new(out_edges, in_edges')
    /\ pc' = "done"
    /\ UNCHANGED uvars
    /\ UNCHANGED <<edge_list, caller, workers, node_count, direction, degrees,
                   offsets, targets, task, slot, claimed, writes, out_edges,
                   edges>>

ReturnUndirected ==
    /\ pc = "return"
    /\ caller = "Undirected"
    /\ edges' = CSR(offsets, targets)
    /\ graph' = UndirectedCSRGraph_new(edges')
    /\ pc' = "done"
    /\ UNCHANGED uvars
    /\ UNCHANGED <<edge_list, caller, workers, node_count, direction, degrees,
                   offsets, targets, task, slot, claimed, writes, out_edges,
                   in_edges>>

Next ==
    \/ Degrees
    \/ PrefixSum
    \/ Alloc
    \/ \E e \in DOMAIN task : FetchAdd(e)
    \/ \E e \in DOMAIN task : Store(e)
    \/ Repair
    \/ SortTargets
    \/ ReturnCSR
    \/ ReturnOut
    \/ ReturnIn
    \/ ReturnUndirected

Spec == Init /\ [][Next]_vars

\* Lexicographic order of edges.
EdgeLeq(a, b) == a[1] < b[1] \/ (a[1] = b[1] /\ a[2] <= b[2])

\* The inputs with the edge list in lexicographic order. The closures start
\* in any order whatever the order of the list, so every run from a list is,
\* edge for edge, a run from the ordered list.
FairInit ==
    /\ Init
    /\ \A e \in 1 .. Len(edge_list) - 1 : EdgeLeq(edge_list[e], edge_list[e + 1])

\* The pool's threads are scheduled by the operating system: a step that can
\* be taken is taken in the end.
FairSpec == FairInit /\ [][Next]_vars /\ WF_vars(Next)

----------------------------------------------------------------------------
\* What the claims are stated over.

\* The CSRs built so far, each with the direction it was built for.
Built ==
    (IF out_edges # Null THEN {<<"Outgoing", out_edges>>} ELSE {})
        \cup (IF in_edges # Null THEN {<<"Incoming", in_edges>>} ELSE {})
        \cup (IF edges # Null THEN {<<direction, edges>>} ELSE {})

IsSorted(s) == \A i \in 1 .. Len(s) - 1 : s[i] <= s[i + 1]

Count(s, v) == Cardinality({k \in 1 .. Len(s) : s[k] = v})

BagOf(s) == [v \in {s[k] : k \in 1 .. Len(s)} |-> Count(s, v)]

\* The opposite endpoints of the edges anchored at node i, in edge order.
RECURSIVE Opposite(_, _, _)
Opposite(el, i, d) ==
    IF el = <<>> THEN <<>>
    ELSE LET s == Head(el)[1]
             t == Head(el)[2]
         IN  (IF d \in {"Outgoing", "Undirected"} /\ s = i THEN <<t>> ELSE <<>>)
                 \o (IF d \in {"Incoming", "Undirected"} /\ t = i THEN <<s>> ELSE <<>>)
                 \o Opposite(Tail(el), i, d)

\* Placement by one worker taking the edges in order.
RECURSIVE PlaceInOrder(_, _, _)
PlaceInOrder(ps, offs, tgts) ==
    IF ps = <<>> THEN [offsets |-> offs, targets |-> tgts]
    ELSE PlaceInOrder(Tail(ps), fetch_add(offs, Head(ps)[1]),
                      Set(tgts, At(offs, Head(ps)[1]), Head(ps)[2]))

\* The CSR that the pipeline yields when the edges are placed in order.
InOrderCSR(el, nc, d) ==
    LET offs == prefix_sum(edge_list_degrees(el, nc, d))
        ps == Concat([e \in 1 .. Len(el) |-> placements(d, el[e][1], el[e][2])])
        placed == PlaceInOrder(ps, offs, Zeros(At(offs, nc)))
    IN  CSR(repair(placed.offsets),
            sort_targets(repair(placed.offsets), placed.targets))

----------------------------------------------------------------------------
\* C1: in every built CSR, the range targets[offsets[i] .. offsets[i+1]) of
\* every node i, the last node included, is sorted ascending.
C1_EveryRangeSorted ==
    \A b \in Built :
        \A i \in 0 .. CSR_node_count(b[2]) - 1 : IsSorted(CSR_neighbors(b[2], i))

\* C2: the built CSR does not depend on the schedule: every interleaving of
\* the placement steps ends with the offsets and targets that one worker
\* taking the edges in order ends with.
C2_ScheduleIndependent ==
    \A b \in Built : b[2] = InOrderCSR(edge_list, node_count, b[1])

\* C3: no index of targets is returned by two fetch_add steps, no cell is
\* stored to twice, and once every closure has finished every cell has been
\* stored to exactly once.
C3_SlotsExclusive ==
    /\ \A i \in DOMAIN claimed : claimed[i] <= 1
    /\ \A k \in DOMAIN writes : writes[k] <= 1
    /\ (pc = "place" /\ AllPlaced) =>
           /\ Len(writes) = Len(targets)
           /\ \A k \in DOMAIN writes : writes[k] = 1

\* Two closures have both fetched from the cursor of the same node and
\* neither has stored yet.
C3_Witness ==
    /\ pc = "place"
    /\ \E e1, e2 \in DOMAIN task :
           /\ e1 # e2
           /\ task[e1] % 2 = 1
           /\ task[e2] % 2 = 1
           /\ Placement(e1)[1] = Placement(e2)[1]

\* C4: in every built CSR the multiset of values in node i's range is the
\* multiset of opposite endpoints of the edges anchored at i under the build
\* direction; an edge occurring k times yields k entries.
C4_NeighborMultiset ==
    \A b \in Built :
        \A i \in 0 .. CSR_node_count(b[2]) - 1 :
            BagOf(CSR_neighbors(b[2], i)) = BagOf(Opposite(edge_list, i, b[1]))

\* A CSR has been built from an edge list that holds some edge twice.
C4_Witness ==
    /\ pc = "done"
    /\ \E e1, e2 \in DOMAIN edge_list : e1 # e2 /\ edge_list[e1] = edge_list[e2]

\* C5: in every built CSR offsets has node_count + 1 cells, is nondecreasing,
\* starts at 0 and ends at targets.len().
C5_OffsetsShape ==
    \A b \in Built :
        LET offs == b[2].offsets
        IN  /\ Len(offs) = node_count + 1
            /\ \A i \in 1 .. Len(offs) - 1 : offs[i] <= offs[i + 1]
            /\ At(offs, 0) = 0
            /\ At(offs, node_count) = Len(b[2].targets)

\* A CSR has been built in which some node has neighbours and some has none.
C5_Witness ==
    /\ pc = "done"
    /\ \E b \in Built :
           /\ \E i \in 0 .. node_count - 1 : CSR_degree(b[2], i) = 0
           /\ \E i \in 0 .. node_count - 1 : CSR_degree(b[2], i) >= 2

\* Sum of f(i) over the nodes 0 .. n - 1.
RECURSIVE SumOver(_, _)
SumOver(f, n) == IF n = 0 THEN 0 ELSE f[n - 1] + SumOver(f, n - 1)

SelfLoops(n) == Count(edge_list, <<n, n>>)

\* C6: in a finished DirectedCSRGraph out_neighbors(u) is the ascending list
\* of t over the edges (u,t) and in_neighbors(v) the ascending list of s over
\* the edges (s,v); for [(0,1),(0,2),(1,2)]: out 0 -> [1,2], 1 -> [2],
\* 2 -> [], in 0 -> [], 1 -> [0], 2 -> [0,1].
C6_DirectedNeighbors ==
    (pc = "done" /\ caller = "Directed") =>
        /\ \A u \in 0 .. graph.node_count - 1 :
               /\ out_neighbors(u) = sort_unstable(Opposite(edge_list, u, "Outgoing"))
               /\ in_neighbors(u) = sort_unstable(Opposite(edge_list, u, "Incoming"))
        /\ edge_list = <<<<0, 1>>, <<0, 2>>, <<1, 2>>>> =>
               /\ out_neighbors(0) = <<1, 2>>
               /\ out_neighbors(1) = <<2>>
               /\ out_neighbors(2) = <<>>
               /\ in_neighbors(0) = <<>>
               /\ in_neighbors(1) = <<0>>
               /\ in_neighbors(2) = <<0, 1>>

\* C7: in a finished UndirectedCSRGraph neighbors(u) is the ascending list of
\* the opposite endpoints of the edges incident to u, and v occurs in
\* neighbors(u) as often as u in neighbors(v); for {(0,1),(1,2),(2,0)}:
\* node_count 3, edge_count 3, 0 -> [1,2], 1 -> [0,2], 2 -> [0,1].
C7_UndirectedNeighbors ==
    (pc = "done" /\ caller = "Undirected") =>
        /\ \A u \in 0 .. graph.node_count - 1 :
               neighbors(u) = sort_unstable(Opposite(edge_list, u, "Undirected"))
        /\ \A u, v \in 0 .. graph.node_count - 1 :
               Count(neighbors(u), v) = Count(neighbors(v), u)
        /\ edge_list = <<<<0, 1>>, <<1, 2>>, <<2, 0>>>> =>
               /\ graph.node_count = 3
               /\ graph.edge_count = 3
               /\ neighbors(0) = <<1, 2>>
               /\ neighbors(1) = <<0, 2>>
               /\ neighbors(2) = <<0, 1>>

\* C8: in a finished directed graph the out-degrees and the in-degrees each
\* sum to edge_count(), the number of input edges; in a finished undirected
\* graph the degrees sum to 2 * edge_count() and edge_count() is the number
\* of input edges.
C8_DegreeSums ==
    /\ (pc = "done" /\ caller = "Directed") =>
           /\ SumOver([i \in 0 .. graph.node_count - 1 |-> out_degree(i)],
                      graph.node_count) = graph.edge_count
           /\ SumOver([i \in 0 .. graph.node_count - 1 |-> in_degree(i)],
                      graph.node_count) = graph.edge_count
           /\ graph.edge_count = Len(edge_list)
    /\ (pc = "done" /\ caller = "Undirected") =>
           /\ SumOver([i \in 0 .. graph.node_count - 1 |-> degree(i)],
                      graph.node_count) = 2 * graph.edge_count
           /\ graph.edge_count = Len(edge_list)

\* An undirected graph of at least two edges, one of them a self-loop, is
\* finished.
C8_Witness ==
    /\ pc = "done"
    /\ caller = "Undirected"
    /\ Len(edge_list) >= 2
    /\ \E n \in Nodes : SelfLoops(n) > 0

\* C9: every self-loop (n,n) contributes two entries n to neighbors(n) in an
\* Undirected build, and one entry n to node n's range in an Outgoing and in
\* an Incoming build.
C9_SelfLoopEntries ==
    \A b \in Built :
        \A n \in 0 .. CSR_node_count(b[2]) - 1 :
            Count(CSR_neighbors(b[2], n), n) =
                (IF b[1] = "Undirected" THEN 2 ELSE 1) * SelfLoops(n)

\* An Undirected CSR is built from an edge list with a self-loop at a node
\* that has another neighbour too.
C9_Witness ==
    /\ pc = "done"
    /\ direction = "Undirected"
    /\ \E n \in 0 .. node_count - 1 :
           /\ SelfLoops(n) > 0
           /\ CSR_degree(edges, n) > 2 * SelfLoops(n)

\* C10: CSR::from of the empty input (node_count 0, no edges) does not panic
\* and returns offsets = [0], targets = [].
C10_EmptyInputBuilds ==
    (node_count = 0 /\ edge_list = <<>>) =>
        /\ pc # "panic"
        /\ pc = "done" => edges = CSR(<<0>>, <<>>)

\* The exclusive start of node n's range, from the edge list itself.
RangeStart(n, d) == SumOver([i \in 0 .. n - 1 |-> degree_of(edge_list, i, d)], n)

\* C12: in a graph built from an edge list with node_count = max_node_id + 1
\* every value stored in targets is < node_count.
C12_TargetsInRange ==
    (pc = "done" /\ caller \in {"Directed", "Undirected"}) =>
        \A b \in Built :
            \A k \in 1 .. Len(b[2].targets) : b[2].targets[k] < graph.node_count

\* A graph is finished whose targets hold the largest node id.
C12_Witness ==
    /\ pc = "done"
    /\ caller \in {"Directed", "Undirected"}
    /\ \E b \in Built :
           \E k \in 1 .. Len(b[2].targets) : b[2].targets[k] = MaxNodes - 1

\* C13: sort_targets splits targets into exactly node_count sub-ranges, the
\* i-th being targets[offsets[i] .. offsets[i+1]), so that a sort is
\* dispatched for the range of every node.
C13_OneChunkPerNode ==
    (pc = "sort" /\ ~slice_panics(offsets)) =>
        LET chunks == target_chunks(offsets, targets).target_chunks
        IN  /\ Len(chunks) = node_count
            /\ \A i \in 0 .. node_count - 1 :
                   chunks[i + 1] = SubSeq(targets, At(offsets, i) + 1,
                                          At(offsets, i + 1))

\* C14: at the join after placement, cursor cell i holds the exclusive end of
\* node i's range (the pre-placement offset[i+1]) for every node i, and
\* offset[node_count] is unchanged.
C14_CursorsAtRangeEnds ==
    (pc = "place" /\ \A e \in DOMAIN task : task[e] = Steps(e)) =>
        /\ \A i \in 0 .. node_count - 1 :
               At(offsets, i) = At(prefix_sum(degrees), i + 1)
        /\ At(offsets, node_count) = At(prefix_sum(degrees), node_count)

\* Every closure has finished, two workers ran, and some cursor has moved
\* by at least two.
C14_Witness ==
    /\ pc = "place"
    /\ AllPlaced
    /\ workers = 2
    /\ \E i \in 0 .. node_count - 1 : At(degrees, i) >= 2

\* C15: after the repair offsets equals, cell for cell, the prefix sum
\* computed before placement, offsets[i+1] - offsets[i] = degree[i], and in
\* a built CSR degree(i) = neighbors(i).len().
C15_RepairRestoresOffsets ==
    /\ pc \in {"sort", "return"} =>
           /\ offsets = prefix_sum(degrees)
           /\ \A i \in 0 .. node_count - 1 :
                  At(offsets, i + 1) - At(offsets, i) = At(degrees, i)
    /\ \A b \in Built :
           \A i \in 0 .. CSR_node_count(b[2]) - 1 :
               /\ CSR_degree(b[2], i) = degree_of(edge_list, i, b[1])
               /\ CSR_degree(b[2], i) = Len(CSR_neighbors(b[2], i))

\* The repair has run on cursors that placement had moved.
C15_Witness ==
    /\ pc = "sort"
    /\ Len(targets) >= 2
    /\ \E i \in 0 .. node_count - 1 : At(degrees, i) = 0

\* C16: during placement every index a fetch_add on the cursor of node n has
\* returned lies in n's own range, inside targets, and no cursor exceeds the
\* end of its node's range.
C16_ClaimsStayInRange ==
    pc = "place" =>
        /\ \A e \in DOMAIN task :
               task[e] % 2 = 1 =>
                   LET n == Placement(e)[1]
                   IN  /\ RangeStart(n, direction) <= slot[e]
                       /\ slot[e] < RangeStart(n + 1, direction)
                       /\ slot[e] < Len(targets)
        /\ \A n \in 0 .. node_count - 1 :
               At(offsets, n) <= RangeStart(n + 1, direction)

\* A closure holds the last index of the range of a node that is not the
\* last node.
C16_Witness ==
    /\ pc = "place"
    /\ \E e \in DOMAIN task :
           /\ task[e] % 2 = 1
           /\ Placement(e)[1] < node_count - 1
           /\ slot[e] = RangeStart(Placement(e)[1] + 1, direction) - 1
           /\ slot[e] > RangeStart(Placement(e)[1], direction)

\* C18: prefix_sum(degrees) has degrees.len() + 1 cells, sums[0] = 0 and
\* sums[i+1] = sums[i] + degrees[i]; its last cell is the total, and it is
\* [0] for an empty degree array.
C18_PrefixSumIsExclusiveScan ==
    pc = "alloc" =>
        /\ Len(offsets) = Len(degrees) + 1
        /\ At(offsets, 0) = 0
        /\ \A i \in 0 .. Len(degrees) - 1 :
               At(offsets, i + 1) = At(offsets, i) + At(degrees, i)
        /\ At(offsets, Len(degrees)) = SumOver([i \in 0 .. Len(degrees) - 1 |->
                                                   At(degrees, i)], Len(degrees))
        /\ degrees = <<>> => offsets = <<0>>

\* prefix_sum has run on a degree array with two non-zero degrees.
C18_Witness ==
    /\ pc = "alloc"
    /\ Cardinality({i \in 0 .. Len(degrees) - 1 : At(degrees, i) > 0}) >= 2

\* C20: in a finished DirectedCSRGraph out_edges and in_edges have the same
\* node_count, which is node_count(), and the same number of target entries,
\* which is edge_count().
C20_DirectedCsrsAgree ==
    (pc = "done" /\ caller = "Directed") =>
        /\ CSR_node_count(out_edges) = CSR_node_count(in_edges)
        /\ CSR_node_count(in_edges) = graph.node_count
        /\ CSR_edge_count(out_edges) = CSR_edge_count(in_edges)
        /\ CSR_edge_count(in_edges) = graph.edge_count

\* A directed graph is finished whose out- and in-degrees differ at a node.
C20_Witness ==
    /\ pc = "done"
    /\ caller = "Directed"
    /\ \E i \in 0 .. graph.node_count - 1 : out_degree(i) # in_degree(i)

\* The moves of pc that the order of the phases allows.
PhaseOrder ==
    {<<"degrees", "prefix_sum">>, <<"prefix_sum", "alloc">>, <<"alloc", "place">>,
     <<"place", "sort">>, <<"sort", "return">>, <<"return", "done">>,
     <<"return", "degrees">>, <<"place", "panic">>, <<"sort", "panic">>}

\* C17: the phases follow one another behind barriers: the prefix sum runs
\* on the finished degree array, placement steps happen only between the
\* allocation and the repair, the repair runs only when every closure has
\* performed all its steps, the sort starts from repaired offsets, and a CSR
\* is handed out only after the sort.
C17_PhasesInOrder ==
    [][/\ pc' # pc => <<pc, pc'>> \in PhaseOrder
       /\ (pc = "prefix_sum" /\ pc' = "alloc") =>
              degrees = edge_list_degrees(edge_list, node_count, direction)
       /\ (task' # task /\ pc # "alloc") => pc = "place"
       /\ (targets' # targets /\ pc # "alloc") => pc \in {"place", "sort"}
       /\ (pc = "place" /\ pc' = "sort") =>
              /\ \A e \in DOMAIN task : task[e] = Steps(e)
              /\ InFlight = {}
       /\ (pc = "sort" /\ pc' = "return") =>
              /\ offsets = prefix_sum(degrees)
              /\ offsets' = offsets
       /\ Built' # Built =>
              /\ pc = "return"
              /\ \E b \in Built' : b[2] = CSR(offsets, targets)]_vars

\* A directed graph of at least two edges is finished: both builds have gone
\* through every phase.
C17_Witness ==
    /\ pc = "done"
    /\ caller = "Directed"
    /\ Len(edge_list) >= 2

\* C19: a build from a valid edge list with node_count >= 1 ends with a CSR
\* under every fair schedule; a closure performs one step at a time, never
\* more than a fetch_add and a store per placed endpoint, and never steps
\* back.
C19_Terminates ==
    /\ [][pc = "place" =>
              \A e \in DOMAIN task : task'[e] \in {task[e], task[e] + 1}]_vars
    /\ [](\A e \in DOMAIN task : task[e] <= Steps(e))
    /\ [](node_count >= 1 => <>(pc = "done"))

\* A build of three edges on two workers has ended.
C19_Witness ==
    /\ pc = "done"
    /\ workers = 2
    /\ node_count >= 1
    /\ Len(edge_list) = 3

----------------------------------------------------------------------------
\* Ungraph (crates/unladen_swallow): a loaded undirected graph behind an
\* Arc, the zero-copy neighbor views that clone the Arc, and
\* reorder_by_degree. Calls come from the interpreter one at a time.

\* The graphs load() may hand over.
LoadedGraphs ==
    {InOrderCSR(el, max_node_id(el) + 1, "Undirected") : el \in EdgeLists \ {<<>>}}

\* Arc::strong_count: the Ungraph's own reference and one per view alive.
StrongCount == 1 + Cardinality({v \in DOMAIN views : views[v] # Null})

\* Mutable access handed out whatever the count.
Arc_get_mut_unchecked(count) == TRUE

\* Arc::get_mut is Some only for the sole owner.
Arc_get_mut(count) == count = 1

\* The new id of node i: nodes by descending degree, equal degrees by id.
NewId(csr, i) ==
    Cardinality({j \in 0 .. CSR_node_count(csr) - 1 :
                    \/ CSR_degree(csr, j) > CSR_degree(csr, i)
                    \/ (CSR_degree(csr, j) = CSR_degree(csr, i) /\ j < i)})

\* to_degree_ordered: the arrays rewritten under the new ids.
to_degree_ordered(csr) ==
    LET n == CSR_node_count(csr)
        old == [k \in 1 .. n |-> CHOOSE i \in 0 .. n - 1 : NewId(csr, i) = k - 1]
        lists == [k \in 1 .. n |->
                     LET nb == CSR_neighbors(csr, old[k])
                     IN  sort_unstable([x \in 1 .. Len(nb) |-> NewId(csr, nb[x])])]
    IN  CSR(prefix_sum([k \in 1 .. n |-> Len(lists[k])]), Concat(lists))

\* The state after Ungraph::load.
UngraphInit ==
    /\ g \in LoadedGraphs
    /\ views = [v \in 1 .. MaxViews |-> Null]
    /\ load_micros \in 0 .. MaxMicros
    /\ returned = "none"
    /\ edge_list = <<>>
    /\ caller = "Ungraph"
    /\ workers = 1
    /\ node_count = 0
    /\ direction = "Undirected"
    /\ pc = "loaded"
    /\ degrees = <<>>
    /\ offsets = <<>>
    /\ targets = <<>>
    /\ task = <<>>
    /\ slot = <<>>
    /\ claimed = <<>>
    /\ writes = <<>>
    /\ out_edges = Null
    /\ in_edges = Null
    /\ edges = Null
    /\ graph = Null

\* Ungraph::neighbors: a view of node's list, holding a clone of the Arc.
UngraphNeighbors(v, node) ==
    /\ pc = "loaded"
    /\ views[v] = Null
    /\ node < CSR_node_count(g)
    /\ views' = [views EXCEPT ![v] = [node |-> node, seen |-> g]]
    /\ returned' = "view"
    /\ UNCHANGED <<g, load_micros>>
    /\ UNCHANGED cvars

\* A view is dropped by its holder.
UngraphDropView(v) ==
    /\ pc = "loaded"
    /\ views[v] # Null
    /\ views' = [views EXCEPT ![v] = Null]
    /\ returned' = "dropped"
    /\ UNCHANGED <<g, load_micros>>
    /\ UNCHANGED cvars

\* Ungraph::reorder_by_degree; elapsed is the time the relabeling took
\* (load_micros is kept within MaxMicros, far below its clamp at u64::MAX).
UngraphReorderByDegree(elapsed) ==
    /\ pc = "loaded"
    /\ IF Arc_get_mut(StrongCount)
       THEN /\ load_micros + elapsed <= MaxMicros
            /\ g' = to_degree_ordered(g)
            /\ load_micros' = load_micros + elapsed
            /\ returned' = "Ok"
       ELSE /\ returned' = "Err"
            /\ UNCHANGED <<g, load_micros>>
    /\ UNCHANGED views
    /\ UNCHANGED cvars

UngraphNext ==
    \/ \E v \in 1 .. MaxViews, node \in Nodes : UngraphNeighbors(v, node)
    \/ \E v \in 1 .. MaxViews : UngraphDropView(v)
    \/ \E elapsed \in 0 .. MaxMicros : UngraphReorderByDegree(elapsed)

UngraphSpec == UngraphInit /\ [][UngraphNext]_vars

\* C11: reorder_by_degree called while another reference to the graph is
\* alive returns an error and leaves the arrays and load_micros as they
\* were; the arrays are rewritten only for the sole owner; and no view alive
\* ever sees arrays other than those it was created on.
C11_ReorderNeedsSoleOwner ==
    /\ [](\A v \in DOMAIN views : views[v] # Null => views[v].seen = g)
    /\ [][(StrongCount > 1 /\ returned' \in {"Ok", "Err"} /\ views' = views) =>
              (returned' = "Err" /\ g' = g /\ load_micros' = load_micros)]_vars
    /\ [][(g' # g \/ load_micros' # load_micros) =>
              (StrongCount = 1 /\ returned' = "Ok")]_vars

\* A reorder that would have changed the arrays was refused while a view
\* was alive.
C11_Witness ==
    /\ returned = "Err"
    /\ \E v \in DOMAIN views : views[v] # Null
    /\ to_degree_ordered(g) # g

=============================================================================
